---------------------------- MODULE Spec2Model ----------------------------
(***************************************************************************)
(* Model of the text-to-SQL pipeline of the AI Finance Tracker backend     *)
(* (src/api.py) over the Finance table created by src/sql.py.              *)
(*                                                                         *)
(* Python strings are sequences of one-character strings, so that lower(), *)
(* upper(), strip(), startswith() and the `in` substring test are computed *)
(* as Python computes them.  Optional values are sequences of length at    *)
(* most one: None is <<>> and a present value x is <<x>>.                  *)
(***************************************************************************)
EXTENDS Integers, Sequences, FiniteSets, TLC

(***************************************************************************)
(* String literals of the program and of the modelled inputs.              *)
(***************************************************************************)
\* 'Delete the last transaction'
Q_last ==
    <<"D", "e", "l", "e", "t", "e", " ", "t", "h", "e", " ", "l", "a", "s", "t", " ", "t",
      "r", "a", "n", "s", "a", "c", "t", "i", "o", "n">>
\* 'Buy a BOMB'
Q_bomb ==
    <<"B", "u", "y", " ", "a", " ", "B", "O", "M", "B">>
\* 'my problem'
Q_problem ==
    <<"m", "y", " ", "p", "r", "o", "b", "l", "e", "m">>
\* 'rob'
KW_rob ==
    <<"r", "o", "b">>
\* 'hack'
KW_hack ==
    <<"h", "a", "c", "k">>
\* 'steal'
KW_steal ==
    <<"s", "t", "e", "a", "l">>
\* 'terrorist'
KW_terrorist ==
    <<"t", "e", "r", "r", "o", "r", "i", "s", "t">>
\* 'attack'
KW_attack ==
    <<"a", "t", "t", "a", "c", "k">>
\* 'kill'
KW_kill ==
    <<"k", "i", "l", "l">>
\* 'murder'
KW_murder ==
    <<"m", "u", "r", "d", "e", "r">>
\* 'drugs'
KW_drugs ==
    <<"d", "r", "u", "g", "s">>
\* 'bomb'
KW_bomb ==
    <<"b", "o", "m", "b">>
\* 'scam'
KW_scam ==
    <<"s", "c", "a", "m">>
\* 'fraud'
KW_fraud ==
    <<"f", "r", "a", "u", "d">>
\* "INSERT INTO Finance (purchased, categorization, amount, date, payment_type) VALUES ('pizza', 'Food', 250, '2025-01-30', NULL);"
S_insert ==
    <<"I", "N", "S", "E", "R", "T", " ", "I", "N", "T", "O", " ", "F", "i", "n", "a", "n",
      "c", "e", " ", "(", "p", "u", "r", "c", "h", "a", "s", "e", "d", ",", " ", "c", "a",
      "t", "e", "g", "o", "r", "i", "z", "a", "t", "i", "o", "n", ",", " ", "a", "m", "o",
      "u", "n", "t", ",", " ", "d", "a", "t", "e", ",", " ", "p", "a", "y", "m", "e", "n",
      "t", "_", "t", "y", "p", "e", ")", " ", "V", "A", "L", "U", "E", "S", " ", "(", "'",
      "p", "i", "z", "z", "a", "'", ",", " ", "'", "F", "o", "o", "d", "'", ",", " ", "2",
      "5", "0", ",", " ", "'", "2", "0", "2", "5", "-", "0", "1", "-", "3", "0", "'", ",",
      " ", "N", "U", "L", "L", ")", ";">>
\* "INSERT INTO Finance (id, purchased, categorization, amount, date) VALUES (1, 'tea', 'Food', 20, '2025-01-30');"
S_insert_id ==
    <<"I", "N", "S", "E", "R", "T", " ", "I", "N", "T", "O", " ", "F", "i", "n", "a", "n",
      "c", "e", " ", "(", "i", "d", ",", " ", "p", "u", "r", "c", "h", "a", "s", "e", "d",
      ",", " ", "c", "a", "t", "e", "g", "o", "r", "i", "z", "a", "t", "i", "o", "n", ",",
      " ", "a", "m", "o", "u", "n", "t", ",", " ", "d", "a", "t", "e", ")", " ", "V", "A",
      "L", "U", "E", "S", " ", "(", "1", ",", " ", "'", "t", "e", "a", "'", ",", " ", "'",
      "F", "o", "o", "d", "'", ",", " ", "2", "0", ",", " ", "'", "2", "0", "2", "5", "-",
      "0", "1", "-", "3", "0", "'", ")", ";">>
\* "INSERT INTO Finance (purchased, categorization, amount, date) VALUES ('gift', 'Other', NULL, '2025-01-30');"
S_insert_null ==
    <<"I", "N", "S", "E", "R", "T", " ", "I", "N", "T", "O", " ", "F", "i", "n", "a", "n",
      "c", "e", " ", "(", "p", "u", "r", "c", "h", "a", "s", "e", "d", ",", " ", "c", "a",
      "t", "e", "g", "o", "r", "i", "z", "a", "t", "i", "o", "n", ",", " ", "a", "m", "o",
      "u", "n", "t", ",", " ", "d", "a", "t", "e", ")", " ", "V", "A", "L", "U", "E", "S",
      " ", "(", "'", "g", "i", "f", "t", "'", ",", " ", "'", "O", "t", "h", "e", "r", "'",
      ",", " ", "N", "U", "L", "L", ",", " ", "'", "2", "0", "2", "5", "-", "0", "1", "-",
      "3", "0", "'", ")", ";">>
\* "SELECT * FROM Finance WHERE categorization='Food';"
S_select ==
    <<"S", "E", "L", "E", "C", "T", " ", "*", " ", "F", "R", "O", "M", " ", "F", "i", "n",
      "a", "n", "c", "e", " ", "W", "H", "E", "R", "E", " ", "c", "a", "t", "e", "g", "o",
      "r", "i", "z", "a", "t", "i", "o", "n", "=", "'", "F", "o", "o", "d", "'", ";">>
\* 'UPDATE Finance SET amount = 300 WHERE id = (SELECT id FROM Finance ORDER BY id DESC LIMIT 1);'
S_update ==
    <<"U", "P", "D", "A", "T", "E", " ", "F", "i", "n", "a", "n", "c", "e", " ", "S", "E",
      "T", " ", "a", "m", "o", "u", "n", "t", " ", "=", " ", "3", "0", "0", " ", "W", "H",
      "E", "R", "E", " ", "i", "d", " ", "=", " ", "(", "S", "E", "L", "E", "C", "T", " ",
      "i", "d", " ", "F", "R", "O", "M", " ", "F", "i", "n", "a", "n", "c", "e", " ", "O",
      "R", "D", "E", "R", " ", "B", "Y", " ", "i", "d", " ", "D", "E", "S", "C", " ", "L",
      "I", "M", "I", "T", " ", "1", ")", ";">>
\* 'DELETE FROM Finance WHERE id = (SELECT id FROM Finance ORDER BY id DESC LIMIT 1);'
S_delete ==
    <<"D", "E", "L", "E", "T", "E", " ", "F", "R", "O", "M", " ", "F", "i", "n", "a", "n",
      "c", "e", " ", "W", "H", "E", "R", "E", " ", "i", "d", " ", "=", " ", "(", "S", "E",
      "L", "E", "C", "T", " ", "i", "d", " ", "F", "R", "O", "M", " ", "F", "i", "n", "a",
      "n", "c", "e", " ", "O", "R", "D", "E", "R", " ", "B", "Y", " ", "i", "d", " ", "D",
      "E", "S", "C", " ", "L", "I", "M", "I", "T", " ", "1", ")", ";">>
\* 'DELETE FROM Finance;'
S_delete_all ==
    <<"D", "E", "L", "E", "T", "E", " ", "F", "R", "O", "M", " ", "F", "i", "n", "a", "n",
      "c", "e", ";">>
\* 'DROP TABLE Finance;'
S_drop ==
    <<"D", "R", "O", "P", " ", "T", "A", "B", "L", "E", " ", "F", "i", "n", "a", "n", "c",
      "e", ";">>
\* "I can't help with spam."
T_refusal ==
    <<"I", " ", "c", "a", "n", "'", "t", " ", "h", "e", "l", "p", " ", "w", "i", "t", "h",
      " ", "s", "p", "a", "m", ".">>
\* ' Possible Misuse detected.\n'
T_refusal_nl ==
    <<" ", "P", "o", "s", "s", "i", "b", "l", "e", " ", "M", "i", "s", "u", "s", "e", " ",
      "d", "e", "t", "e", "c", "t", "e", "d", ".", "\n">>
\* '  '
T_blank ==
    <<" ", " ">>
\* "Security Alert: Please don't spam or misuse the app."
M_alert ==
    <<"S", "e", "c", "u", "r", "i", "t", "y", " ", "A", "l", "e", "r", "t", ":", " ", "P",
      "l", "e", "a", "s", "e", " ", "d", "o", "n", "'", "t", " ", "s", "p", "a", "m", " ",
      "o", "r", " ", "m", "i", "s", "u", "s", "e", " ", "t", "h", "e", " ", "a", "p", "p",
      ".">>
\* 'Expense successfully added!'
M_added ==
    <<"E", "x", "p", "e", "n", "s", "e", " ", "s", "u", "c", "c", "e", "s", "s", "f", "u",
      "l", "l", "y", " ", "a", "d", "d", "e", "d", "!">>
\* 'Operation successful. Affected '
M_affected ==
    <<"O", "p", "e", "r", "a", "t", "i", "o", "n", " ", "s", "u", "c", "c", "e", "s", "s",
      "f", "u", "l", ".", " ", "A", "f", "f", "e", "c", "t", "e", "d", " ">>
\* ' records.'
M_records ==
    <<" ", "r", "e", "c", "o", "r", "d", "s", ".">>
\* 'Found '
M_found ==
    <<"F", "o", "u", "n", "d", " ">>
\* 'Error executing query.'
M_error ==
    <<"E", "r", "r", "o", "r", " ", "e", "x", "e", "c", "u", "t", "i", "n", "g", " ", "q",
      "u", "e", "r", "y", ".">>
\* 'AI Service unavailable'
M_unavailable ==
    <<"A", "I", " ", "S", "e", "r", "v", "i", "c", "e", " ", "u", "n", "a", "v", "a", "i",
      "l", "a", "b", "l", "e">>
\* 'misuse'
W_misuse ==
    <<"m", "i", "s", "u", "s", "e">>
\* 'spam'
W_spam ==
    <<"s", "p", "a", "m">>
\* 'SELECT'
W_SELECT ==
    <<"S", "E", "L", "E", "C", "T">>
\* 'INSERT'
W_INSERT ==
    <<"I", "N", "S", "E", "R", "T">>
\* 'UPDATE'
W_UPDATE ==
    <<"U", "P", "D", "A", "T", "E">>
\* 'DELETE'
W_DELETE ==
    <<"D", "E", "L", "E", "T", "E">>
\* 'DROP'
W_DROP ==
    <<"D", "R", "O", "P">>
\* 'TRUNCATE'
W_TRUNCATE ==
    <<"T", "R", "U", "N", "C", "A", "T", "E">>
\* 'ALTER'
W_ALTER ==
    <<"A", "L", "T", "E", "R">>
\* 'GRANT'
W_GRANT ==
    <<"G", "R", "A", "N", "T">>
\* 'WHERE'
W_WHERE ==
    <<"W", "H", "E", "R", "E">>
\* 'None'
W_None ==
    <<"N", "o", "n", "e">>
\* 'delete all'
W_delete_all ==
    <<"d", "e", "l", "e", "t", "e", " ", "a", "l", "l">>
\* 'SELECT categorization, SUM(amount) as total FROM Finance GROUP BY categorization ORDER BY total DESC'
SQL_analytics ==
    <<"S", "E", "L", "E", "C", "T", " ", "c", "a", "t", "e", "g", "o", "r", "i", "z", "a",
      "t", "i", "o", "n", ",", " ", "S", "U", "M", "(", "a", "m", "o", "u", "n", "t", ")",
      " ", "a", "s", " ", "t", "o", "t", "a", "l", " ", "F", "R", "O", "M", " ", "F", "i",
      "n", "a", "n", "c", "e", " ", "G", "R", "O", "U", "P", " ", "B", "Y", " ", "c", "a",
      "t", "e", "g", "o", "r", "i", "z", "a", "t", "i", "o", "n", " ", "O", "R", "D", "E",
      "R", " ", "B", "Y", " ", "t", "o", "t", "a", "l", " ", "D", "E", "S", "C">>
\* 'SELECT id, purchased, amount, categorization, date FROM Finance ORDER BY id DESC LIMIT 5'
SQL_recent ==
    <<"S", "E", "L", "E", "C", "T", " ", "i", "d", ",", " ", "p", "u", "r", "c", "h", "a",
      "s", "e", "d", ",", " ", "a", "m", "o", "u", "n", "t", ",", " ", "c", "a", "t", "e",
      "g", "o", "r", "i", "z", "a", "t", "i", "o", "n", ",", " ", "d", "a", "t", "e", " ",
      "F", "R", "O", "M", " ", "F", "i", "n", "a", "n", "c", "e", " ", "O", "R", "D", "E",
      "R", " ", "B", "Y", " ", "i", "d", " ", "D", "E", "S", "C", " ", "L", "I", "M", "I",
      "T", " ", "5">>

(***************************************************************************)
(* Optional values.                                                        *)
(***************************************************************************)
None == <<>>

Some(x) == <<x>>

Val(o) == o[1]

(***************************************************************************)
(* Python str operations.                                                  *)
(***************************************************************************)
UpperChars ==
    <<"A", "B", "C", "D", "E", "F", "G", "H", "I", "J", "K", "L", "M",
      "N", "O", "P", "Q", "R", "S", "T", "U", "V", "W", "X", "Y", "Z">>

LowerChars ==
    <<"a", "b", "c", "d", "e", "f", "g", "h", "i", "j", "k", "l", "m",
      "n", "o", "p", "q", "r", "s", "t", "u", "v", "w", "x", "y", "z">>

Whitespace == {" ", "\n", "\t", "\r"}

UpperSet == {UpperChars[i] : i \in DOMAIN UpperChars}

LowerSet == {LowerChars[i] : i \in DOMAIN LowerChars}

ToLower ==
    [c \in UpperSet |-> LowerChars[CHOOSE i \in DOMAIN UpperChars : UpperChars[i] = c]]

ToUpper ==
    [c \in LowerSet |-> UpperChars[CHOOSE i \in DOMAIN LowerChars : LowerChars[i] = c]]

LowerChar(c) == IF c \in UpperSet THEN ToLower[c] ELSE c

UpperChar(c) == IF c \in LowerSet THEN ToUpper[c] ELSE c

\* str.lower()
lower(s) == [i \in 1..Len(s) |-> LowerChar(s[i])]

\* str.upper()
upper(s) == [i \in 1..Len(s) |-> UpperChar(s[i])]

RECURSIVE lstrip(_)
lstrip(s) == IF s # <<>> /\ Head(s) \in Whitespace THEN lstrip(Tail(s)) ELSE s

RECURSIVE rstrip(_)
rstrip(s) ==
    IF s # <<>> /\ s[Len(s)] \in Whitespace THEN rstrip(SubSeq(s, 1, Len(s) - 1)) ELSE s

\* str.strip(): leading and trailing whitespace removed
strip(s) == rstrip(lstrip(s))

\* str.startswith(prefix)
startswith(s, prefix) ==
    /\ Len(prefix) <= Len(s)
    /\ SubSeq(s, 1, Len(prefix)) = prefix

\* `sub in s`
Contains(s, sub) ==
    \E i \in 0..(Len(s) - Len(sub)) : SubSeq(s, i + 1, i + Len(sub)) = sub

Digits == <<"0", "1", "2", "3", "4", "5", "6", "7", "8", "9">>

RECURSIVE NatStr(_)
NatStr(n) ==
    IF n < 10 THEN <<Digits[n + 1]>>
    ELSE NatStr(n \div 10) \o <<Digits[(n % 10) + 1]>>

\* str(n) as an f-string renders an int
IntStr(n) == IF n < 0 THEN <<"-">> \o NatStr(0 - n) ELSE NatStr(n)

\* an f-string's rendering of an Optional[int]
OptIntStr(o) == IF o = None THEN W_None ELSE IntStr(Val(o))

(***************************************************************************)
(* The relational store: the Finance table of student.db.                  *)
(*   exists  whether the table exists                                      *)
(*   rows    its records                                                   *)
(*   seq     the AUTOINCREMENT high-water mark (sqlite_sequence.seq)       *)
(***************************************************************************)
MaxInitRows == 5

DateValue == "2025-01-30"

\* the record with key id of a store as it stands before the modelled requests
InitRow(id) ==
    IF id % 2 = 1
    THEN [id |-> id, purchased |-> "bus", categorization |-> "Transport",
          amount |-> 40, date |-> DateValue, payment_type |-> "NULL"]
    ELSE [id |-> id, purchased |-> "pizza", categorization |-> "Food",
          amount |-> 250, date |-> DateValue, payment_type |-> "NULL"]

NoTable == [exists |-> FALSE, rows |-> {}, seq |-> 0]

\* CREATE TABLE IF NOT EXISTS Finance(id INTEGER PRIMARY KEY AUTOINCREMENT, ...)
\* followed by earlier inserts and deletes that left the records lo..hi
Populated(lo, hi) ==
    [exists |-> TRUE, rows |-> {InitRow(i) : i \in lo..hi}, seq |-> hi]

Max(a, b) == IF a >= b THEN a ELSE b

Ids(rs) == {r.id : r \in rs}

MaxRowId(rs) ==
    IF rs = {} THEN 0 ELSE CHOOSE i \in Ids(rs) : \A j \in Ids(rs) : j <= i

RECURSIVE ByIdAsc(_)
ByIdAsc(rs) ==
    IF rs = {} THEN <<>>
    ELSE LET r == CHOOSE x \in rs : \A y \in rs : x.id <= y.id
         IN  <<r>> \o ByIdAsc(rs \ {r})

RECURSIVE ByIdDesc(_)
ByIdDesc(rs) ==
    IF rs = {} THEN <<>>
    ELSE LET r == CHOOSE x \in rs : \A y \in rs : y.id <= x.id
         IN  <<r>> \o ByIdDesc(rs \ {r})

Take(s, n) == SubSeq(s, 1, IF Len(s) < n THEN Len(s) ELSE n)

\* the columns of SELECT *
StarTuple(r) ==
    <<r.id, r.purchased, r.categorization, r.amount, r.date, r.payment_type>>

\* the columns of SELECT id, purchased, amount, categorization, date
RecentTuple(r) == <<r.id, r.purchased, r.amount, r.categorization, r.date>>

\* the categories of the instruction contract, in collation order
Categories ==
    <<"Entertainment", "Food", "Healthcare", "Other", "Shopping", "Transport",
      "Utilities">>

RECURSIVE SumAmount(_)
SumAmount(rs) ==
    IF rs = {} THEN 0
    ELSE LET r == CHOOSE x \in rs : TRUE
         IN  r.amount + SumAmount(rs \ {r})

\* GROUP BY categorization: one <<categorization, SUM(amount)>> per group
Groups(rs) ==
    {<<Categories[i], SumAmount({r \in rs : r.categorization = Categories[i]})>> :
        i \in {j \in DOMAIN Categories :
                 \E r \in rs : r.categorization = Categories[j]}}

CatIndex(c) == CHOOSE i \in DOMAIN Categories : Categories[i] = c

\* ORDER BY total DESC; groups of equal total keep the grouping order
RECURSIVE ByTotalDesc(_)
ByTotalDesc(gs) ==
    IF gs = {} THEN <<>>
    ELSE LET g == CHOOSE x \in gs : \A y \in gs :
                     \/ x[2] > y[2]
                     \/ x[2] = y[2] /\ CatIndex(x[1]) <= CatIndex(y[1])
         IN  <<g>> \o ByTotalDesc(gs \ {g})

RecentLimit == 5

\* RecentOrder with the order reversed
RecentOrderAscending(rs) == ByIdAsc(rs)

\* ORDER BY id DESC
RecentOrder(rs) == ByIdDesc(rs)

(***************************************************************************)
(* What SQLite makes of each statement text the model uses.  A text that   *)
(* is none of these is not SQL.                                            *)
(***************************************************************************)
Statements ==
    <<[text |-> S_insert,
       sem  |-> [op |-> "insert", id |-> None,
                 row |-> [purchased |-> "pizza", categorization |-> "Food",
                          amount |-> Some(250), date |-> DateValue,
                          payment_type |-> "NULL"]]],
      [text |-> S_insert_id,
       sem  |-> [op |-> "insert", id |-> Some(1),
                 row |-> [purchased |-> "tea", categorization |-> "Food",
                          amount |-> Some(20), date |-> DateValue,
                          payment_type |-> "NULL"]]],
      [text |-> S_insert_null,
       sem  |-> [op |-> "insert", id |-> None,
                 row |-> [purchased |-> "gift", categorization |-> "Other",
                          amount |-> None, date |-> DateValue,
                          payment_type |-> "NULL"]]],
      [text |-> S_select,     sem |-> [op |-> "select", cat |-> "Food"]],
      [text |-> S_update,     sem |-> [op |-> "update", where |-> "last", amount |-> 300]],
      [text |-> S_delete,     sem |-> [op |-> "delete", where |-> "last"]],
      [text |-> S_delete_all, sem |-> [op |-> "delete", where |-> "all"]],
      [text |-> S_drop,       sem |-> [op |-> "drop"]],
      [text |-> SQL_analytics, sem |-> [op |-> "analytics"]],
      [text |-> SQL_recent,   sem |-> [op |-> "recent", limit |-> RecentLimit]]>>

SqliteParse(sql) ==
    IF \E i \in DOMAIN Statements : Statements[i].text = sql
    THEN Statements[CHOOSE i \in DOMAIN Statements : Statements[i].text = sql].sem
    ELSE [op |-> "error"]

\* statements that need the database write lock
WriteOps == {"insert", "update", "delete", "drop"}

\* statements Python's sqlite3 opens an implicit transaction for
DmlOps == {"insert", "update", "delete"}

SqlFail(st) == [ok |-> FALSE, rows |-> <<>>, rowcount |-> -1, store |-> st]

\* the records a WHERE clause selects
Matching(where, rs) ==
    IF where = "all" THEN rs ELSE {r \in rs : r.id = MaxRowId(rs)}

\* cur.execute(sql) on store contents st: the outcome, cursor.fetchall(),
\* cursor.rowcount and the store contents the statement leaves
SqliteExecute(sem, st) ==
    IF sem.op = "error" \/ ~st.exists THEN SqlFail(st)
    ELSE CASE sem.op = "insert" ->
                LET id == IF sem.id = None THEN Max(st.seq, MaxRowId(st.rows)) + 1
                          ELSE Val(sem.id)
                IN  IF sem.row.amount = None \/ id \in Ids(st.rows) THEN SqlFail(st)
                    ELSE [ok |-> TRUE, rows |-> <<>>, rowcount |-> 1,
                          store |-> [st EXCEPT
                              !.rows = @ \cup
                                  {[id |-> id, purchased |-> sem.row.purchased,
                                    categorization |-> sem.row.categorization,
                                    amount |-> Val(sem.row.amount),
                                    date |-> sem.row.date,
                                    payment_type |-> sem.row.payment_type]},
                              !.seq = Max(@, id)]]
           [] sem.op = "update" ->
                LET hit == Matching(sem.where, st.rows)
                IN  [ok |-> TRUE, rows |-> <<>>, rowcount |-> Cardinality(hit),
                     store |-> [st EXCEPT
                         !.rows = (@ \ hit) \cup
                                  {[r EXCEPT !.amount = sem.amount] : r \in hit}]]
           [] sem.op = "delete" ->
                LET hit == Matching(sem.where, st.rows)
                IN  [ok |-> TRUE, rows |-> <<>>, rowcount |-> Cardinality(hit),
                     store |-> [st EXCEPT !.rows = @ \ hit]]
           [] sem.op = "drop" ->
                [ok |-> TRUE, rows |-> <<>>, rowcount |-> -1, store |-> NoTable]
           [] sem.op = "select" ->
                LET hit == {r \in st.rows : r.categorization = sem.cat}
                    ord == ByIdAsc(hit)
                IN  [ok |-> TRUE, rows |-> [i \in 1..Len(ord) |-> StarTuple(ord[i])],
                     rowcount |-> -1, store |-> st]
           [] sem.op = "analytics" ->
                [ok |-> TRUE, rows |-> ByTotalDesc(Groups(st.rows)),
                 rowcount |-> -1, store |-> st]
           [] sem.op = "recent" ->
                LET ord == Take(RecentOrder(st.rows), sem.limit)
                IN  [ok |-> TRUE, rows |-> [i \in 1..Len(ord) |-> RecentTuple(ord[i])],
                     rowcount |-> -1, store |-> st]

(***************************************************************************)
(* The request pipeline of process_query and the two read views.           *)
(***************************************************************************)
\* the host's request threads
Workers == {"w1", "w2"}

\* request texts
Questions == {Q_last, Q_bomb, Q_problem}

\* completion.choices[0].message.content, as the service may return it
Contents ==
    {S_insert, S_insert_id, S_insert_null, S_select, S_update, S_delete,
     S_delete_all, S_drop, T_refusal, T_refusal_nl, T_blank}

\* outcomes of client.chat.completions.create: a content, or an exception
Completions == {Some(c) : c \in Contents} \cup {None}

VARIABLES
    client,        \* the Groq client, or None without an API key
    store,         \* the committed contents of student.db
    writer,        \* the connection holding the database write lock, or None
    pc,            \* each worker's position in process_query
    question,      \* req.question
    completion,    \* what the generative-text service answered
    sql,           \* the local sql of process_query
    txn,           \* a connection's executed, uncommitted statement
    response,      \* what the request returned or raised
    hist,          \* history: the stages the request has entered, in order
    genCalls,      \* history: calls of the generative-text service
    execCalls,     \* history: statements handed to cur.execute
    lastInserted,  \* history: the latest successful write, if an INSERT: its statement
                   \* and the record it added
    lastAnalytics, \* the latest /analytics answer, and whether the one before it was
                   \* given with no write between; None once a write has followed
    lastRecent     \* the latest /recent answer, None once a write has followed

vars ==
    <<client, store, writer, pc, question, completion, sql, txn, response, hist,
      genCalls, execCalls, lastInserted, lastAnalytics, lastRecent>>

spam_keywords ==
    {KW_rob, KW_hack, KW_steal, KW_terrorist, KW_attack, KW_kill, KW_murder,
     KW_drugs, KW_bomb, KW_scam, KW_fraud}

\* is_spam_input with the input compared as typed
is_spam_input_cased(user_input) ==
    \E word \in spam_keywords : Contains(user_input, word)

\* is_spam_input: a denylisted word in the lower-cased input
is_spam_input(user_input) ==
    LET user_input_lower == lower(user_input)
    IN  \E word \in spam_keywords : Contains(user_input_lower, word)

\* get_ai_response: None without a client or on an exception, else the
\* stripped content
get_ai_response(c) ==
    IF client = None THEN None
    ELSE IF c = None THEN None
    ELSE Some(strip(Val(c)))

\* Python truthiness of an Optional[str] or Optional[list]
Truthy(o) == o # None /\ Val(o) # <<>>

\* sql.strip().upper().startswith("SELECT")
IsSelect(s) == startswith(upper(strip(s)), W_SELECT)

\* read_sql_query: (rows, row_count) and the store contents it leaves; a
\* sqlite3.Error gives (None, None) and rolls back
read_sql_query(s, st) ==
    LET res == SqliteExecute(SqliteParse(s), st)
    IN  IF ~res.ok THEN [rows |-> None, row_count |-> None, store |-> st]
        ELSE IF IsSelect(s)
        THEN [rows |-> Some(res.rows), row_count |-> None, store |-> res.store]
        ELSE [rows |-> None, row_count |-> Some(res.rowcount), store |-> res.store]

\* IsRefusal with the text compared as returned
IsRefusalCased(s) == Contains(s, W_misuse) \/ Contains(s, W_spam)

\* "misuse" in sql.lower() or "spam" in sql.lower()
IsRefusal(s) == Contains(lower(s), W_misuse) \/ Contains(lower(s), W_spam)

\* step 4 of process_query: the message for (sql, rows, row_count)
FormatMessage(s, rs, rc) ==
    LET sql_upper == upper(strip(s))
    IN  IF startswith(sql_upper, W_INSERT) THEN M_added
        ELSE IF startswith(sql_upper, W_UPDATE) \/ startswith(sql_upper, W_DELETE)
        THEN M_affected \o OptIntStr(rc) \o M_records
        ELSE IF rs # None THEN M_found \o IntStr(Len(Val(rs))) \o M_records
        ELSE M_error

QueryResponse(s, d, rc, m) ==
    [status |-> 200, sql |-> s, data |-> d, row_count |-> rc, message |-> m]

HTTPException(code, d) == [status |-> code, detail |-> d]

\* AfterSynthesis with the call tried again when it gave no text
AfterSynthesisRetry(r) == IF ~Truthy(r) THEN "Synthesizing" ELSE "Validating"

\* the position after get_ai_response returned r
AfterSynthesis(r) == IF ~Truthy(r) THEN "Unavailable" ELSE "Validating"

\* the position after the check of the generated text
AfterValidation(s) == IF IsRefusal(s) THEN "Declined" ELSE "Executing"

\* WriteLockFree with no lock between connections
WriteLockIgnored(w) == TRUE

\* whether connection w may take the database write lock
WriteLockFree(w) == writer = None

\* AnalyticsSql with a statement that writes
AnalyticsSqlWriting == S_delete

\* the statement of /analytics
AnalyticsSql == SQL_analytics

\* the statement of /recent
RecentSql == SQL_recent

Init ==
    /\ client \in {Some("Groq"), None}
    /\ \/ \E n \in 0..MaxInitRows, lo \in 1..2 : store = Populated(lo, MaxInitRows - n)
       \/ store = NoTable   \* init_db never ran
    /\ writer = None
    /\ pc = [w \in Workers |-> "Idle"]
    /\ question = [w \in Workers |-> None]
    /\ completion = [w \in Workers |-> None]
    /\ sql = [w \in Workers |-> None]
    /\ txn = [w \in Workers |-> None]
    /\ response = [w \in Workers |-> None]
    /\ hist = [w \in Workers |-> <<>>]
    /\ genCalls = [w \in Workers |-> 0]
    /\ execCalls = [w \in Workers |-> 0]
    /\ lastInserted = None
    /\ lastAnalytics = None
    /\ lastRecent = None

\* POST /query arrives.  1. Spam Check: a blocked request returns at once, any
\* other goes on to call the generative-text service.
Receive(w) ==
    /\ pc[w] = "Idle"
    /\ \E q \in Questions :
         /\ question' = [question EXCEPT ![w] = Some(q)]
         /\ IF is_spam_input(q)
            THEN /\ response' = [response EXCEPT
                        ![w] = Some(QueryResponse(None, None, None, M_alert))]
                 /\ pc' = [pc EXCEPT ![w] = "Blocked"]
                 /\ hist' = [hist EXCEPT ![w] = @ \o <<"Classifying", "Blocked">>]
            ELSE /\ pc' = [pc EXCEPT ![w] = "Synthesizing"]
                 /\ hist' = [hist EXCEPT ![w] = @ \o <<"Classifying", "Synthesizing">>]
                 /\ UNCHANGED response
    /\ UNCHANGED <<client, store, writer, completion, sql, txn, genCalls, execCalls,
                   lastInserted, lastAnalytics, lastRecent>>

\* 2. AI Generation: get_ai_response returns; no text raises 503.
\* 2.5 Safety Check on AI Output: a refusal is returned as the message, any
\* other text goes on to read_sql_query.
Synthesize(w) ==
    /\ pc[w] = "Synthesizing"
    /\ \E c \in (IF client = None THEN {None} ELSE Completions) :
       \E r \in {get_ai_response(c)} :
       \E next \in {AfterSynthesis(r)} :
         /\ completion' = [completion EXCEPT ![w] = c]
         /\ genCalls' = [genCalls EXCEPT ![w] = IF client = None THEN @ ELSE @ + 1]
         /\ CASE next = "Unavailable" ->
                   /\ response' = [response EXCEPT
                          ![w] = Some(HTTPException(503, M_unavailable))]
                   /\ pc' = [pc EXCEPT ![w] = next]
                   /\ hist' = [hist EXCEPT ![w] = Append(@, next)]
                   /\ UNCHANGED sql
              [] next = "Validating" ->
                   \E after \in {AfterValidation(Val(r))} :
                     /\ sql' = [sql EXCEPT ![w] = r]
                     /\ pc' = [pc EXCEPT ![w] = after]
                     /\ hist' = [hist EXCEPT ![w] = @ \o <<next, after>>]
                     /\ IF after = "Declined"
                        THEN response' = [response EXCEPT
                                 ![w] = Some(QueryResponse(None, None, None, Val(r)))]
                        ELSE UNCHANGED response
              [] OTHER ->
                   /\ pc' = [pc EXCEPT ![w] = next]
                   /\ hist' = [hist EXCEPT ![w] = Append(@, next)]
                   /\ UNCHANGED <<sql, response>>
    /\ UNCHANGED <<client, store, writer, question, txn, execCalls, lastInserted,
                   lastAnalytics, lastRecent>>

\* 4. Formulate Response, for the (rows, row_count) read_sql_query returned
Return(w, rs, rc) ==
    /\ response' = [response EXCEPT
           ![w] = Some(QueryResponse(sql[w], rs, rc, FormatMessage(Val(sql[w]), rs, rc)))]
    /\ pc' = [pc EXCEPT ![w] = "Done"]
    /\ hist' = [hist EXCEPT ![w] = @ \o <<"Formatting", "Done">>]

\* 3. Database Execution: connect and cur.execute(sql).  An INSERT, UPDATE or
\* DELETE that succeeds holds the write lock with its change uncommitted; any
\* other statement is complete, and a failed one is rolled back.
Execute(w) ==
    /\ pc[w] = "Executing"
    /\ \E sem \in {SqliteParse(Val(sql[w]))} :
       \E out \in {read_sql_query(Val(sql[w]), store)} :
       \E ok \in {out.rows # None \/ out.row_count # None} :
         /\ sem.op \in WriteOps => WriteLockFree(w)
         /\ execCalls' = [execCalls EXCEPT ![w] = @ + 1]
         /\ IF ok /\ sem.op \in DmlOps
            THEN /\ txn' = [txn EXCEPT ![w] = Some(out)]
                 /\ writer' = Some(w)
                 /\ pc' = [pc EXCEPT ![w] = "Committing"]
                 /\ UNCHANGED <<store, response, hist, lastInserted, lastAnalytics,
                                lastRecent>>
            ELSE /\ store' = out.store
                 /\ Return(w, out.rows, out.row_count)
                 /\ IF ok /\ sem.op \in WriteOps
                    THEN /\ lastInserted' = None
                         /\ lastAnalytics' = None
                         /\ lastRecent' = None
                    ELSE UNCHANGED <<lastInserted, lastAnalytics, lastRecent>>
                 /\ UNCHANGED <<txn, writer>>
    /\ UNCHANGED <<client, question, completion, sql, genCalls>>

\* cur.execute(sql) gives up waiting for the write lock another connection
\* holds: sqlite3.OperationalError, (None, None)
ExecuteBusy(w) ==
    /\ pc[w] = "Executing"
    /\ SqliteParse(Val(sql[w])).op \in WriteOps
    /\ writer # None
    /\ execCalls' = [execCalls EXCEPT ![w] = @ + 1]
    /\ Return(w, None, None)
    /\ UNCHANGED <<client, store, writer, question, completion, sql, txn, genCalls,
                   lastInserted, lastAnalytics, lastRecent>>

\* conn.commit(): the executed statement's change becomes the store
Commit(w) ==
    /\ pc[w] = "Committing"
    /\ \E out \in {Val(txn[w])} :
       \E new \in {out.store.rows \ store.rows} :
         /\ store' = out.store
         /\ Return(w, out.rows, out.row_count)
         /\ lastInserted' =
               IF SqliteParse(Val(sql[w])).op = "insert" /\ new # {}
               THEN Some([stmt |-> Val(sql[w]), row |-> CHOOSE r \in new : TRUE])
               ELSE None
    /\ txn' = [txn EXCEPT ![w] = None]
    /\ writer' = None
    /\ lastAnalytics' = None
    /\ lastRecent' = None
    /\ UNCHANGED <<client, question, completion, sql, genCalls, execCalls>>

\* [{"category": row[0], "total": row[1]} for row in rows], or [] for no rows
AnalyticsData(rs) ==
    IF Truthy(rs)
    THEN [i \in 1..Len(Val(rs)) |->
            [category |-> Val(rs)[i][1], total |-> Val(rs)[i][2]]]
    ELSE <<>>

\* the /recent list of {id, item, amount, category, date}, or [] for no rows
RecentData(rs) ==
    IF Truthy(rs)
    THEN [i \in 1..Len(Val(rs)) |->
            [id |-> Val(rs)[i][1], item |-> Val(rs)[i][2], amount |-> Val(rs)[i][3],
             category |-> Val(rs)[i][4], date |-> Val(rs)[i][5]]]
    ELSE <<>>

\* GET /analytics
get_analytics ==
    /\ \E out \in {read_sql_query(AnalyticsSql, store)} :
           /\ store' = out.store
           /\ lastAnalytics' = Some([data  |-> AnalyticsData(out.rows),
                                   again |-> lastAnalytics # None])
    /\ UNCHANGED <<client, writer, pc, question, completion, sql, txn, response, hist,
                   genCalls, execCalls, lastInserted, lastRecent>>

\* GET /recent
get_recent_transactions ==
    /\ \E out \in {read_sql_query(RecentSql, store)} :
           /\ store' = out.store
           /\ lastRecent' = Some(RecentData(out.rows))
    /\ UNCHANGED <<client, writer, pc, question, completion, sql, txn, response, hist,
                   genCalls, execCalls, lastInserted, lastAnalytics>>

process_query(w) ==
    \/ Receive(w)
    \/ Synthesize(w)
    \/ Execute(w)
    \/ ExecuteBusy(w)
    \/ Commit(w)

Next ==
    \/ \E w \in Workers : process_query(w)
    \/ get_analytics
    \/ get_recent_transactions

Spec == Init /\ [][Next]_vars

(***************************************************************************)
(* Properties.                                                             *)
(***************************************************************************)
\* term occurs in text at some position, letter case ignored
OccursIgnoringCase(term, text) ==
    \E i \in 1..Len(text) :
        /\ i + Len(term) - 1 <= Len(text)
        /\ \A j \in 1..Len(term) : LowerChar(text[i + j - 1]) = LowerChar(term[j])

\* the request texts that contain a denylisted term
DenylistedQuestions ==
    {q \in Questions : \E term \in spam_keywords : OccursIgnoringCase(term, q)}

\* the texts get_ai_response can return
SqlTexts == {strip(c) : c \in Contents}

\* the request has ended, and how
Ended(w) == pc[w] \in {"Blocked", "Unavailable", "Declined", "Done"}

Resp(w) == Val(response[w])

\* C1: a request whose text contains a denylisted term, in any letter case,
\* ends Blocked: the generative-text service is never called for it, no
\* statement of it reaches the store, its message is the fixed security alert
\* and its sql field is absent.
C1_DenylistedIsBlocked ==
    \A w \in Workers :
        (question[w] # None /\ Val(question[w]) \in DenylistedQuestions) =>
            /\ pc[w] = "Blocked"
            /\ genCalls[w] = 0
            /\ execCalls[w] = 0
            /\ sql[w] = None /\ txn[w] = None
            /\ Resp(w).status = 200
            /\ Resp(w).message = M_alert
            /\ Resp(w).sql = None

C1_Witness ==
    \E w \in Workers :
        /\ question[w] = Some(Q_bomb)
        /\ pc[w] = "Blocked"
        /\ Resp(w).message = M_alert

DestructiveKeywords == {W_DROP, W_TRUNCATE, W_ALTER, W_GRANT}

\* the texts that contain a destructive schema keyword
DestructiveTexts ==
    {s \in SqlTexts : \E k \in DestructiveKeywords : OccursIgnoringCase(k, s)}

\* C2: a synthesized statement that contains DROP, TRUNCATE, ALTER or GRANT is
\* rejected before execution: it is never handed to the SQL executor, so it
\* never takes effect on the store.
C2_DestructiveNeverExecuted ==
    \A w \in Workers :
        (sql[w] # None /\ Val(sql[w]) \in DestructiveTexts) =>
            /\ execCalls[w] = 0
            /\ pc[w] # "Done"

\* the leading keyword of a statement
Kind(s) ==
    LET u == upper(strip(s))
    IN  IF startswith(u, W_INSERT) THEN "INSERT"
        ELSE IF startswith(u, W_UPDATE) THEN "UPDATE"
        ELSE IF startswith(u, W_DELETE) THEN "DELETE"
        ELSE IF startswith(u, W_SELECT) THEN "SELECT"
        ELSE "OTHER"

\* the request texts that ask for a bulk action in so many words
BulkQuestions == {q \in Questions : OccursIgnoringCase(W_delete_all, q)}

\* the texts that are an UPDATE or DELETE with no WHERE clause
UnscopedTexts ==
    {s \in SqlTexts : Kind(s) \in {"UPDATE", "DELETE"} /\ ~OccursIgnoringCase(W_WHERE, s)}

\* C3: for a request that does not signal a bulk action, an UPDATE or DELETE
\* with no WHERE clause is rejected before execution: it is never handed to the
\* SQL executor.
C3_UnscopedNeverExecuted ==
    \A w \in Workers :
        (/\ sql[w] # None
         /\ Val(question[w]) \notin BulkQuestions
         /\ Val(sql[w]) \in UnscopedTexts)
            => execCalls[w] = 0 /\ pc[w] # "Done"

\* the executor reported a store-level failure: no rows and no affected count
ExecutionFailed(w) ==
    pc[w] = "Done" /\ Resp(w).data = None /\ Resp(w).row_count = None

\* C4: whatever the statement's kind, when the executor reports a store-level
\* failure the response carries the generic failure message and no data.
C4_FailureIsReported ==
    \A w \in Workers :
        ExecutionFailed(w) => Resp(w).message = M_error /\ Resp(w).data = None

\* the stages of the pipeline, in order
Stages == <<"Classifying", "Synthesizing", "Validating", "Executing", "Formatting">>

StageRank(s) == CHOOSE i \in DOMAIN Stages : Stages[i] = s

IsStage(s) == \E i \in DOMAIN Stages : Stages[i] = s

\* how a request that has ended has ended, in the terms of the pipeline state
\* machine: a request that returned after a failed execution has Failed
Outcome(w) == IF ExecutionFailed(w) THEN "Failed" ELSE pc[w]

\* h is one traversal of the pipeline: stages in increasing order from
\* Classifying on, none entered twice, then at most one final entry
OneTraversal(h) ==
    /\ h # <<>> => h[1] = "Classifying"
    /\ \A i \in DOMAIN h : IsStage(h[i]) \/ i = Len(h)
    /\ \A i, j \in DOMAIN h :
           (i < j /\ IsStage(h[i]) /\ IsStage(h[j])) => StageRank(h[i]) < StageRank(h[j])

\* the stages h entered before its position i
Before(h, i) == {h[k] : k \in 1..(i - 1)}

\* every stage of h was entered after all the stages that precede it: none skipped
NoneSkipped(h) ==
    \A i \in DOMAIN h :
        IsStage(h[i]) => \A r \in 1..(StageRank(h[i]) - 1) : Stages[r] \in Before(h, i)

LinearPipeline(w, terminals) ==
    /\ OneTraversal(hist[w])
    /\ NoneSkipped(hist[w])
    /\ Ended(w) => Outcome(w) \in terminals
    /\ genCalls[w] <= 1
    /\ execCalls[w] <= 1
    /\ (execCalls[w] > 0 \/ txn[w] # None) =>
           {"Classifying", "Synthesizing", "Validating", "Executing"}
               \subseteq Before(hist[w], Len(hist[w]) + 1)
    /\ genCalls[w] > 0 => "Synthesizing" \in Before(hist[w], Len(hist[w]) + 1)

RefusalContents ==
    {c \in Contents :
        OccursIgnoringCase(W_misuse, c) \/ OccursIgnoringCase(W_spam, c)}

\* the contents that hold no text
BlankContents == {c \in Contents : \A i \in DOMAIN c : c[i] \in Whitespace}

\* the service call of request w is over
Answered(w) == pc[w] \notin {"Idle", "Blocked", "Synthesizing"}

NoText(w) ==
    client = None \/ completion[w] = None \/ Val(completion[w]) \in BlankContents

\* a request without text from the service ends with the 503, no statement executed
UnavailableSignal(w) ==
    /\ pc[w] = "Unavailable"
    /\ Resp(w) = HTTPException(503, M_unavailable)
    /\ execCalls[w] = 0 /\ txn[w] = None

\* a refusal is surfaced as the message, no SQL echoed, no statement executed
DeclinedWith(w, text) ==
    /\ pc[w] = "Declined"
    /\ execCalls[w] = 0 /\ txn[w] = None
    /\ Resp(w).status = 200
    /\ Resp(w).message = text
    /\ Resp(w).sql = None

\* C6 as stated: a refusal from the service is never executed and is the
\* response message exactly as the service returned it, with no sql; no text
\* from the service ends in the service-unavailable signal, with no store access.
C6_AsStated ==
    \A w \in Workers :
        Answered(w) =>
            /\ NoText(w) => UnavailableSignal(w)
            /\ (~NoText(w) /\ Val(completion[w]) \in RefusalContents) =>
                   DeclinedWith(w, Val(completion[w]))

\* C6 (amended): as C6, the message being the returned text with its leading
\* and trailing whitespace removed.
C6_RefusalAndUnavailable ==
    \A w \in Workers :
        Answered(w) =>
            /\ NoText(w) => UnavailableSignal(w)
            /\ (~NoText(w) /\ Val(completion[w]) \in RefusalContents) =>
                   DeclinedWith(w, strip(Val(completion[w])))

C6_Witness ==
    \E w, v \in Workers :
        /\ completion[w] = Some(T_refusal_nl)
        /\ pc[w] = "Declined"
        /\ Resp(w).message = strip(T_refusal_nl)
        /\ pc[v] = "Unavailable"
        /\ completion[v] = Some(T_blank)

Succeeded(w) ==
    pc[w] = "Done" /\ (Resp(w).data # None \/ Resp(w).row_count # None)

\* C7: on success INSERT gives the fixed confirmation, UPDATE and DELETE a
\* message with the affected-row count, SELECT a message with the number of
\* rows and the rows attached; no response carries both data and row_count,
\* data comes only with a SELECT and row_count only with an INSERT, UPDATE or
\* DELETE.
C7_ResponseByKind ==
    \A w \in Workers :
        pc[w] = "Done" =>
            LET r == Resp(w)
                k == Kind(Val(r.sql))
            IN  /\ (Succeeded(w) /\ k = "INSERT") => r.message = M_added
                /\ (Succeeded(w) /\ k \in {"UPDATE", "DELETE"}) =>
                       /\ r.row_count # None
                       /\ r.message = M_affected \o IntStr(Val(r.row_count)) \o M_records
                /\ (Succeeded(w) /\ k = "SELECT") =>
                       /\ r.data # None
                       /\ r.message = M_found \o IntStr(Len(Val(r.data))) \o M_records
                /\ ~(r.data # None /\ r.row_count # None)
                /\ r.data # None => k = "SELECT"
                /\ r.row_count # None => k \in {"INSERT", "UPDATE", "DELETE"}

\* the /recent entry of a record
RecentEntry(r) ==
    [id |-> r.id, item |-> r.purchased, amount |-> r.amount,
     category |-> r.categorization, date |-> r.date]

\* at most RecentLimit entries, in descending id order
RecentShape(d) ==
    /\ Len(d) <= RecentLimit
    /\ \A i, j \in DOMAIN d : i < j => d[i].id > d[j].id

\* the INSERT statements that leave the id to the store
AutoIdInserts ==
    {s \in SqlTexts : SqliteParse(s).op = "insert" /\ SqliteParse(s).id = None}

\* C8 as stated: after any successfully executed INSERT, the recent-activity
\* view (no write between) has the inserted record first, at most 5 entries,
\* in descending id order.
C8_AsStated ==
    (lastInserted # None /\ lastRecent # None) =>
        /\ Val(lastRecent) # <<>>
        /\ Val(lastRecent)[1] = RecentEntry(Val(lastInserted).row)
        /\ RecentShape(Val(lastRecent))

\* C8 (amended): as C8, for an INSERT statement that names no id of its own, so
\* that the store's auto-increment assigns it.
C8_InsertThenRecent ==
    lastRecent # None =>
        /\ RecentShape(Val(lastRecent))
        /\ (lastInserted # None /\ Val(lastInserted).stmt \in AutoIdInserts) =>
               /\ Val(lastRecent) # <<>>
               /\ Val(lastRecent)[1] = RecentEntry(Val(lastInserted).row)

C8_Witness ==
    /\ lastInserted # None
    /\ Val(lastInserted).stmt = S_insert
    /\ lastRecent # None
    /\ Len(Val(lastRecent)) = RecentLimit
    /\ Cardinality(store.rows) > RecentLimit
    /\ Val(lastRecent)[1].id = Val(lastInserted).row.id

\* a step of one of the read views: no request moves
ViewStep == \A w \in Workers : pc'[w] = pc[w]

\* request w executes a SELECT in this step
SelectStep(w) ==
    /\ pc[w] = "Executing"
    /\ pc'[w] # pc[w]
    /\ Kind(Val(sql[w])) = "SELECT"

\* C9: the read path never changes the store: a SELECT executed by the primary
\* operation and the two read views leave every record as it was, and the
\* category-aggregate view answers twice the same with no write between.
C9_ReadPathFrame ==
    [][/\ ViewStep => store' = store
       /\ \A w \in Workers : SelectStep(w) => store' = store
       /\ (lastAnalytics # None /\ lastAnalytics' # None) =>
              Val(lastAnalytics').data = Val(lastAnalytics).data]_vars

C9_Witness ==
    /\ lastAnalytics # None
    /\ Val(lastAnalytics).again
    /\ Len(Val(lastAnalytics).data) >= 2
    /\ lastRecent # None
    /\ \E w \in Workers :
           /\ pc[w] = "Done"
           /\ Kind(Val(sql[w])) = "SELECT"
           /\ Resp(w).data # None
           /\ Val(Resp(w).data) # <<>>

\* the locals of request w
Locals(w) ==
    <<pc[w], question[w], completion[w], sql[w], txn[w], response[w], hist[w],
      genCalls[w], execCalls[w]>>

\* request w ends its statement's execution in this step
ExecutionEnds(w) == pc[w] \in {"Executing", "Committing"} /\ pc'[w] = "Done"

IdsDistinct == \A r1, r2 \in store.rows : r1.id = r2.id => r1 = r2

\* C10: requests share nothing but the store, and a mutating statement takes
\* effect as one atomic unit.  Every change of the store is the whole effect of
\* one request's statement on the store as it stood (so the final store is that
\* of the successful statements in the order of their commits); a statement
\* that fails leaves the store as it was; every successful INSERT adds one
\* record, and no two records share an id.
C10_AtomicWrites ==
    /\ []IdsDistinct
    /\ [][/\ \A w, v \in Workers :
                (Locals(w)' # Locals(w) /\ Locals(v)' # Locals(v)) => w = v
          /\ store' # store =>
                \E w \in Workers :
                    /\ ExecutionEnds(w)
                    /\ store' = read_sql_query(Val(sql[w]), store).store
          /\ \A w \in Workers :
                (/\ ExecutionEnds(w)
                 /\ Val(response'[w]).data = None
                 /\ Val(response'[w]).row_count = None) => store' = store
          /\ \A w \in Workers :
                (/\ ExecutionEnds(w)
                 /\ Kind(Val(sql[w])) = "INSERT"
                 /\ Val(response'[w]).row_count # None) =>
                    /\ Cardinality(store'.rows) = Cardinality(store.rows) + 1
                    /\ Ids(store.rows) \subseteq Ids(store'.rows)]_vars

C10_Witness ==
    \E w, v \in Workers :
        /\ w # v
        /\ pc[w] = "Done" /\ pc[v] = "Done"
        /\ sql[w] = Some(S_insert) /\ sql[v] = Some(S_insert)
        /\ Resp(w).row_count = Some(1) /\ Resp(v).row_count = Some(1)
        /\ \E r1, r2 \in store.rows :
               /\ r1.id # r2.id
               /\ r1.purchased = "pizza" /\ r2.purchased = "pizza"
               /\ r1.id > MaxInitRows /\ r2.id > MaxInitRows
=============================================================================
